---------------------------- MODULE Spec2Model ----------------------------
(***************************************************************************)
(* Model of the alpha-arcade MCP server (src/unnamed/part_000): the        *)
(* get_orderbook tool, which fetches the four-sided on-chain orderbook of  *)
(* a market and returns it as a unified YES-perspective view, and the      *)
(* clients and wallet addresses the other tools are called with.           *)
(*                                                                         *)
(* A tool call is a slot c of the server.  The handler runs synchronously  *)
(* up to its await of client.getOrderbook; the SDK's promise settles; the  *)
(* handler's continuation then runs to its return.  Other calls may take   *)
(* steps in between.  The marketAppId argument only selects which book the *)
(* SDK returns; the model lets the SDK return any book of the bounded      *)
(* domain.                                                                 *)
(***************************************************************************)
EXTENDS Integers, Sequences, FiniteSets, TLC

VARIABLES
    MNEMONIC,   \* process.env.ALPHA_MNEMONIC, read once at startup
    pc,         \* pc[c]: where the handler of call c stands
    client,     \* client[c]: the AlphaClient the handler built
    book,       \* book[c]: the object client.getOrderbook resolved with
    result,     \* result[c]: what the handler returned
    call,       \* call[c]: the tool and the arguments of a call of another tool
    request,    \* request[c]: the query that call made to its client
    response    \* response[c]: what the client's promise resolved with

vars == <<MNEMONIC, pc, client, book, result, call, request, response>>

----------------------------------------------------------------------------
\* Bounds of the model.

\* Largest number of resting orders in one orderbook (all four sides together).
MaxOrders == 3

\* The raw entries the SDK may return: equal prices with different escrows,
\* a price whose complement equals another native price, a price that is
\* not a whole number of hundredths of a cent, both boundary prices, a
\* malformed entry (negative price and quantity), a quantity that is not a
\* whole number of hundredths of a share, and a repeated escrow id.
Entries ==
    { [price |-> 400000,  quantity |-> 1000000,  escrowAppId |-> 101, owner |-> "ALICE"],
      [price |-> 400000,  quantity |-> 2500000,  escrowAppId |-> 102, owner |-> "BOB"],
      [price |-> 600000,  quantity |-> 1005000,  escrowAppId |-> 101, owner |-> "ALICE"],
      [price |-> 400020,  quantity |-> 2500000,  escrowAppId |-> 106, owner |-> "ALICE"],
      [price |-> 0,       quantity |-> 15000,    escrowAppId |-> 103, owner |-> "BOB"],
      [price |-> 1000000, quantity |-> 1000000,  escrowAppId |-> 104, owner |-> "ALICE"],
      [price |-> -20,     quantity |-> -1000000, escrowAppId |-> 105, owner |-> "BOB"] }

\* The values of ALPHA_MNEMONIC: not set (or empty), a mnemonic algosdk
\* decodes, and one it rejects.
Mnemonics == {"unset", "valid", "invalid"}

\* The call slots of the server.
Calls == {1}

\* null and undefined, and a present value, of an optional number or object.
Null == <<>>

Some(v) == <<v>>

----------------------------------------------------------------------------
\* Number.prototype.toFixed(2) and the strings built from it.

Abs(n) == IF n < 0 THEN -n ELSE n

\* A value in hundredths as the decimal string toFixed(2) prints.
FixedString(negative, hundredths) ==
    (IF negative THEN "-" ELSE "")
        \o ToString(hundredths \div 100) \o "."
        \o (IF hundredths % 100 < 10 THEN "0" ELSE "") \o ToString(hundredths % 100)

\* toFixed(2) picks the integer n with n/100 nearest to the double x, the
\* larger n of two.  x*100 is num/den in exact arithmetic; when that lies
\* halfway between two integers the double x lies a little above or below
\* it, and halfUp says which.
Hundredths(num, den, halfUp) ==
    LET a == Abs(num)
        f == a \div den
        r == a % den
    IN  IF 2 * r > den \/ (2 * r = den /\ halfUp) THEN f + 1 ELSE f

\* The halfway cases of the modelled entries and which way their doubles
\* fall (IEEE 754 binary64): 1005000 / 1_000_000 = 1.005 is stored as
\* 1.00499999999999989..., 15000 / 1_000_000 = 0.015 as
\* 0.01499999999999999944..., and so is each product with priceCents = 1.
SharesHalfUp(quantity) == quantity \notin {1005000, 15000}

TotalHalfUp(p, quantity) == <<p, quantity>> \notin {<<1000000, 1005000>>, <<1000000, 15000>>}

\* `${(priceCents * 100).toFixed(2)}¢` with priceCents = p / 1_000_000.
\* No modelled price is a halfway case.
priceString(p) == FixedString(p < 0, Hundredths(p, 100, TRUE)) \o "¢"

\* Faulty variant: the quantity is printed without the division by
\* 1_000_000.
sharesStringUnscaled(quantity) == FixedString(quantity < 0, Abs(quantity) * 100)

\* `${shares.toFixed(2)}` with shares = quantity / 1_000_000.
sharesString(quantity) ==
    FixedString(quantity < 0, Hundredths(quantity, 10000, SharesHalfUp(quantity)))

\* p * quantity = hi * 10^8 + lo, computed in pieces that fit 32-bit integers.
ProductHi(p, quantity) ==
    LET a == Abs(p)
        b == Abs(quantity)
        ah == a \div 10000
        al == a % 10000
        bh == b \div 10000
        bl == b % 10000
        mid == ah * bl + al * bh
        low == (mid % 10000) * 10000 + al * bl
    IN  ah * bh + (mid \div 10000) + (low \div 100000000)

ProductLo(p, quantity) ==
    LET a == Abs(p)
        b == Abs(quantity)
        mid == (a \div 10000) * (b % 10000) + (a % 10000) * (b \div 10000)
    IN  ((mid % 10000) * 10000 + (a % 10000) * (b % 10000)) % 100000000

\* `$${(priceCents * shares).toFixed(2)}`: the product in dollars is
\* p * quantity / 10^12, so in hundredths it is (hi * 10^8 + lo) / 10^10.
totalString(p, quantity) ==
    LET hi == ProductHi(p, quantity)
        lo == ProductLo(p, quantity)
        f  == hi \div 100
        r  == hi % 100
        up == r > 50 \/ (r = 50 /\ lo > 0) \/ (r = 50 /\ lo = 0 /\ TotalHalfUp(p, quantity))
        negative == (p < 0 /\ quantity > 0) \/ (p > 0 /\ quantity < 0)
    IN  "$" \o FixedString(negative, IF up THEN f + 1 ELSE f)

----------------------------------------------------------------------------
\* The unification of get_orderbook (entries.map is a sequence of the same
\* length, built element by element).

\* Faulty variant: priceOverride || e.price, which takes an override of 0
\* for a missing one.
toUnifiedFalsyOverride(e, source, priceOverride) ==
    LET p == IF priceOverride = Null \/ priceOverride = Some(0)
             THEN e.price ELSE priceOverride[1]
    IN  [ price       |-> priceString(p),
          priceRaw    |-> p,
          shares      |-> sharesString(e.quantity),
          total       |-> totalString(p, e.quantity),
          escrowAppId |-> e.escrowAppId,
          owner       |-> e.owner,
          source      |-> source ]

\* toUnified(e, source, priceOverride): priceOverride ?? e.price is the
\* entry's price in YES terms.
toUnified(e, source, priceOverride) ==
    LET p == IF priceOverride = Null THEN e.price ELSE priceOverride[1]
    IN  [ price       |-> priceString(p),
          priceRaw    |-> p,
          shares      |-> sharesString(e.quantity),
          total       |-> totalString(p, e.quantity),
          escrowAppId |-> e.escrowAppId,
          owner       |-> e.owner,
          source      |-> source ]

\* Faulty variant: the NO price is not complemented.
complementPriceOmitted(e) == e.price

\* The price a NO order is shown at: 1_000_000 - e.price.
complementPrice(e) == 1000000 - e.price

\* Faulty variant: the asks are compared the way the bids are.
askCompareDescending(a, b) == b.priceRaw - a.priceRaw

\* The comparators handed to sort: negative when a goes first.
askCompare(a, b) == a.priceRaw - b.priceRaw

\* Faulty variant: the bids are compared like the asks.
bidCompareAscending(a, b) == a.priceRaw - b.priceRaw

bidCompare(a, b) == b.priceRaw - a.priceRaw

\* The comparator of the sort call that builds the given side.
compare(side, a, b) == IF side = "asks" THEN askCompare(a, b) ELSE bidCompare(a, b)

\* Faulty variant: an unstable sort, which puts an element before its equals.
RECURSIVE InsertSortedBeforeEquals(_, _, _)
InsertSortedBeforeEquals(sorted, x, side) ==
    IF sorted = <<>> THEN <<x>>
    ELSE IF compare(side, Head(sorted), x) < 0
         THEN <<Head(sorted)>> \o InsertSortedBeforeEquals(Tail(sorted), x, side)
         ELSE <<x>> \o sorted

\* Array.prototype.sort(compare): a stable sort (ECMAScript 2019), so an
\* element goes behind every element that does not compare greater.
RECURSIVE InsertSorted(_, _, _)
InsertSorted(sorted, x, side) ==
    IF sorted = <<>> THEN <<x>>
    ELSE IF compare(side, Head(sorted), x) <= 0
         THEN <<Head(sorted)>> \o InsertSorted(Tail(sorted), x, side)
         ELSE <<x>> \o sorted

RECURSIVE SortFrom(_, _, _)
SortFrom(sorted, rest, side) ==
    IF rest = <<>> THEN sorted
    ELSE SortFrom(InsertSorted(sorted, Head(rest), side), Tail(rest), side)

\* Faulty variant: the merged entries are left in their arrival order.
sortOmitted(array, side) == array

sort(array, side) == SortFrom(<<>>, array, side)

\* Faulty variant: a YES ask is complemented like a NO order.
yesAskUnifiedComplemented(e) == toUnified(e, "YES ask", Some(1000000 - e.price))

yesAskUnified(e) == toUnified(e, "YES ask", Null)

\* Faulty variant: a NO bid gets the tag of a NO ask.
noBidUnifiedTaggedAsNoAsk(e) ==
    toUnified(e, "NO ask (= YES bid)", Some(complementPrice(e)))

noBidUnified(e) == toUnified(e, "NO bid (= YES ask)", Some(complementPrice(e)))

yesBidUnified(e) == toUnified(e, "YES bid", Null)

noAskUnified(e) == toUnified(e, "NO ask (= YES bid)", Some(complementPrice(e)))

\* Faulty variant: the NO bids are left out of the asks.
askCandidatesWithoutNoBids(b) ==
    [i \in 1..Len(b.yes.asks) |-> toUnified(b.yes.asks[i], "YES ask", Null)]

\* Faulty variant: entries outside the domain are dropped from the asks.
askCandidatesValidated(b) ==
    LET InDomain(e) == e.price >= 0 /\ e.price <= 1000000 /\ e.quantity >= 0
    IN  [i \in 1..Len(SelectSeq(b.yes.asks, InDomain)) |->
            toUnified(SelectSeq(b.yes.asks, InDomain)[i], "YES ask", Null)]
        \o [i \in 1..Len(SelectSeq(b.no.bids, InDomain)) |->
            toUnified(SelectSeq(b.no.bids, InDomain)[i], "NO bid (= YES ask)",
                      Some(1000000 - SelectSeq(b.no.bids, InDomain)[i].price))]

\* The merged candidates of each unified side, before the sort.
askCandidates(b) ==
    [i \in 1..Len(b.yes.asks) |-> yesAskUnified(b.yes.asks[i])]
        \o [i \in 1..Len(b.no.bids) |-> noBidUnified(b.no.bids[i])]

\* Faulty variant: the NO bids, not the NO asks, are merged into the bids.
bidCandidatesFromNoBids(b) ==
    [i \in 1..Len(b.yes.bids) |-> toUnified(b.yes.bids[i], "YES bid", Null)]
        \o [i \in 1..Len(b.no.bids) |->
                toUnified(b.no.bids[i], "NO ask (= YES bid)", Some(1000000 - b.no.bids[i].price))]

bidCandidates(b) ==
    [i \in 1..Len(b.yes.bids) |-> yesBidUnified(b.yes.bids[i])]
        \o [i \in 1..Len(b.no.asks) |-> noAskUnified(b.no.asks[i])]

\* Faulty variant: of the bids with the same escrow only the best is kept.
RECURSIVE DistinctEscrow(_, _)
DistinctEscrow(kept, rest) ==
    IF rest = <<>> THEN kept
    ELSE IF \E i \in DOMAIN kept : kept[i].escrowAppId = Head(rest).escrowAppId
         THEN DistinctEscrow(kept, Tail(rest))
         ELSE DistinctEscrow(Append(kept, Head(rest)), Tail(rest))

sortedBidsDistinctEscrow(b) == DistinctEscrow(<<>>, sort(bidCandidates(b), "bids"))

\* asks = [...].sort(...) and bids = [...].sort(...)
sortedAsks(b) == sort(askCandidates(b), "asks")

sortedBids(b) == sort(bidCandidates(b), "bids")

\* Faulty variant: the last entry of the side is taken for its best.
bestFromLast(side) == IF Len(side) > 0 THEN Some(side[Len(side)].priceRaw) ELSE Null

\* asks.length > 0 ? asks[0].priceRaw : null, and the same of bids.
best(side) == IF Len(side) > 0 THEN Some(side[1].priceRaw) ELSE Null

\* `${((bestAsk - bestBid) / 10_000).toFixed(2)}¢`.  No difference of two
\* modelled prices is a halfway case.
spreadString(d) == FixedString(d < 0, Hundredths(d, 100, TRUE)) \o "¢"

\* Faulty variant: a missing best price counts as 0.
spreadOfZeroDefault(bestAsk, bestBid) ==
    spreadString((IF bestAsk = Null THEN 0 ELSE bestAsk[1])
                    - (IF bestBid = Null THEN 0 ELSE bestBid[1]))

\* Faulty variant: the spread of a crossed book is clamped to zero.
spreadOfClamped(bestAsk, bestBid) ==
    IF bestAsk # Null /\ bestBid # Null
    THEN spreadString(IF bestAsk[1] < bestBid[1] THEN 0 ELSE bestAsk[1] - bestBid[1])
    ELSE "N/A"

spreadOf(bestAsk, bestBid) ==
    IF bestAsk # Null /\ bestBid # Null
    THEN spreadString(bestAsk[1] - bestBid[1])
    ELSE "N/A"

\* Faulty variant: the sum stops after three sides.
totalOrdersOfThreeSides(b) ==
    Len(b.yes.bids) + Len(b.yes.asks) + Len(b.no.bids)

totalOrdersOf(b) ==
    Len(b.yes.bids) + Len(b.yes.asks) + Len(b.no.bids) + Len(b.no.asks)

\* The object get_orderbook serialises.
unify(b) ==
    LET asks    == sortedAsks(b)
        bids    == sortedBids(b)
        bestAsk == best(asks)
        bestBid == best(bids)
        spread  == spreadOf(bestAsk, bestBid)
        totalOrders == totalOrdersOf(b)
    IN  [ unified     |-> [asks |-> asks, bids |-> bids, spread |-> spread],
          totalOrders |-> totalOrders ]

\* textResult(JSON.stringify(value, null, 2)); the text is kept as the JSON
\* document it denotes.
textResult(text) == [content |-> <<[type |-> "text", text |-> text]>>]

\* What the MCP server answers when a handler throws.
errorResult(message) == [isError |-> TRUE, message |-> message]

----------------------------------------------------------------------------
\* The clients.

\* createTradingClient: null without a mnemonic; algosdk.mnemonicToSecretKey
\* throws on a mnemonic it cannot decode.
createTradingClient ==
    CASE MNEMONIC = "unset"   -> [threw |-> FALSE, value |-> Null]
      [] MNEMONIC = "invalid" -> [threw |-> TRUE,  value |-> Null]
      [] OTHER                -> [threw |-> FALSE, value |-> Some("trading")]

createReadOnlyClient == [threw |-> FALSE, value |-> Some("readonly")]

\* Faulty variant: the read-only tools ask for the trading client.
getReadOnlyClientTradingOnly ==
    [threw |-> createTradingClient.threw \/ createTradingClient.value = Null,
     value |-> createTradingClient.value]

\* createTradingClient() ?? createReadOnlyClient()
getReadOnlyClient ==
    IF createTradingClient.threw \/ createTradingClient.value # Null
    THEN createTradingClient
    ELSE createReadOnlyClient

\* The message of the error requireTradingClient throws.
MnemonicRequired ==
    "ALPHA_MNEMONIC environment variable is required for trading operations. Set it in your MCP server configuration."

\* Faulty variant: without a mnemonic the read-only client is handed out,
\* as getReadOnlyClient does.
requireTradingClientOrReadOnly ==
    [threw |-> getReadOnlyClient.threw, message |-> "mnemonicToSecretKey",
     value |-> getReadOnlyClient.value]

\* requireTradingClient: the trading client, or a throw when there is none.
\* A throw of mnemonicToSecretKey passes through.
requireTradingClient ==
    IF createTradingClient.threw
    THEN [threw |-> TRUE, message |-> "mnemonicToSecretKey", value |-> Null]
    ELSE IF createTradingClient.value = Null
         THEN [threw |-> TRUE, message |-> MnemonicRequired, value |-> Null]
         ELSE [threw |-> FALSE, message |-> "", value |-> createTradingClient.value]

----------------------------------------------------------------------------
\* The wallet address of get_open_orders and get_positions.

\* The address of the account a decodable mnemonic stands for.
ConfiguredAddress == "CONFIGURED"

\* What a caller may pass as walletAddress: nothing, the empty string (the
\* schema is z.string().optional()), or an address.
WalletArguments == {Null, Some(""), Some("SUPPLIED")}

\* Faulty variant: mnemonicToSecretKey is called outside a try.
getConfiguredWalletAddressUncaught ==
    CASE MNEMONIC = "unset"   -> [threw |-> FALSE, value |-> Null]
      [] MNEMONIC = "invalid" -> [threw |-> TRUE,  value |-> Null]
      [] OTHER                -> [threw |-> FALSE, value |-> Some(ConfiguredAddress)]

\* getConfiguredWalletAddress: null without a mnemonic, and null when
\* mnemonicToSecretKey throws, which the catch swallows.
getConfiguredWalletAddress ==
    CASE MNEMONIC = "unset"   -> [threw |-> FALSE, value |-> Null]
      [] MNEMONIC = "invalid" -> [threw |-> FALSE, value |-> Null]
      [] OTHER                -> [threw |-> FALSE, value |-> Some(ConfiguredAddress)]

\* The message of the error resolveWalletAddress throws.
NoWalletAddress ==
    "No wallet address provided. Either pass a walletAddress parameter, or set ALPHA_MNEMONIC in your MCP server configuration so the default wallet is used."

\* if (x) for an optional string x: neither undefined nor empty.
Truthy(x) == x # Null /\ x # Some("")

\* Faulty variant: the configured wallet is preferred to the argument.
resolveWalletAddressConfiguredFirst(walletAddress) ==
    IF Truthy(getConfiguredWalletAddress.value)
    THEN [threw |-> FALSE, message |-> "", value |-> getConfiguredWalletAddress.value]
    ELSE IF Truthy(walletAddress)
         THEN [threw |-> FALSE, message |-> "", value |-> walletAddress]
         ELSE [threw |-> TRUE, message |-> NoWalletAddress, value |-> Null]

\* resolveWalletAddress(walletAddress): the argument if truthy, else the
\* configured address if truthy, else a throw.
resolveWalletAddress(walletAddress) ==
    IF Truthy(walletAddress)
    THEN [threw |-> FALSE, message |-> "", value |-> walletAddress]
    ELSE IF getConfiguredWalletAddress.threw
         THEN [threw |-> TRUE, message |-> "mnemonicToSecretKey", value |-> Null]
         ELSE IF Truthy(getConfiguredWalletAddress.value)
              THEN [threw |-> FALSE, message |-> "", value |-> getConfiguredWalletAddress.value]
              ELSE [threw |-> TRUE, message |-> NoWalletAddress, value |-> Null]

----------------------------------------------------------------------------
\* The books client.getOrderbook may resolve with: a sequence of at most
\* MaxOrders entries cut into the four sides.

SubSeqOrEmpty(s, from, to) == IF from > to THEN <<>> ELSE SubSeq(s, from, to)

BookOf(flat, i, j, k) ==
    [ yes |-> [bids |-> SubSeqOrEmpty(flat, 1, i),     asks |-> SubSeqOrEmpty(flat, i + 1, j)],
      no  |-> [bids |-> SubSeqOrEmpty(flat, j + 1, k), asks |-> SubSeqOrEmpty(flat, k + 1, Len(flat))] ]

----------------------------------------------------------------------------
\* The server.

Init ==
    /\ MNEMONIC \in Mnemonics
    /\ pc = [c \in Calls |-> "idle"]
    /\ client = [c \in Calls |-> Null]
    /\ book = [c \in Calls |-> Null]
    /\ result = [c \in Calls |-> Null]
    /\ call = [c \in Calls |-> Null]
    /\ request = [c \in Calls |-> Null]
    /\ response = [c \in Calls |-> Null]

\* get_orderbook is called: the handler builds its client and awaits
\* client.getOrderbook(marketAppId), or throws while building the client.
GetOrderbookCall(c) ==
    /\ pc[c] = "idle"
    /\ IF getReadOnlyClient.threw
       THEN /\ pc' = [pc EXCEPT ![c] = "failed"]
            /\ result' = [result EXCEPT ![c] = Some(errorResult("mnemonicToSecretKey"))]
            /\ UNCHANGED client
       ELSE /\ pc' = [pc EXCEPT ![c] = "awaitOrderbook"]
            /\ client' = [client EXCEPT ![c] = getReadOnlyClient.value]
            /\ UNCHANGED result
    /\ UNCHANGED <<MNEMONIC, book, call, request, response>>

\* client.getOrderbook resolves with a book of at most max orders drawn
\* from entries.
GetOrderbookResolveFrom(c, entries, max) ==
    /\ pc[c] = "awaitOrderbook"
    /\ \E n \in 0..max :
         \E flat \in [1..n -> entries] :
           \E i \in 0..n : \E j \in i..n : \E k \in j..n :
             book' = [book EXCEPT ![c] = Some(BookOf(flat, i, j, k))]
    /\ pc' = [pc EXCEPT ![c] = "resumed"]
    /\ UNCHANGED <<MNEMONIC, client, result, call, request, response>>

GetOrderbookResolve(c) == GetOrderbookResolveFrom(c, Entries, MaxOrders)

\* Faulty variant: the YES asks of the book itself are sorted, as
\* book.yes.asks.sort((a, b) => a.price - b.price) would.
RECURSIVE InsertByPrice(_, _)
InsertByPrice(sorted, e) ==
    IF sorted = <<>> THEN <<e>>
    ELSE IF Head(sorted).price <= e.price
         THEN <<Head(sorted)>> \o InsertByPrice(Tail(sorted), e)
         ELSE <<e>> \o sorted

RECURSIVE SortByPrice(_, _)
SortByPrice(sorted, rest) ==
    IF rest = <<>> THEN sorted
    ELSE SortByPrice(InsertByPrice(sorted, Head(rest)), Tail(rest))

inputAfterUnifySortedInPlace(b) ==
    [b EXCEPT !.yes.asks = SortByPrice(<<>>, b.yes.asks)]

\* What the handler leaves in the book it was given: map and the array
\* literal build new arrays and sort reorders the literal, so nothing of the
\* book is written.
inputAfterUnify(b) == b

\* Faulty variant: the continuation throws when the book has no orders.
GetOrderbookUnifyRejectingEmpty(c) ==
    /\ pc[c] = "resumed"
    /\ LET b == book[c][1]
       IN  IF Len(b.yes.bids) + Len(b.yes.asks) + Len(b.no.bids) + Len(b.no.asks) = 0
           THEN /\ result' = [result EXCEPT ![c] = Some(errorResult("empty orderbook"))]
                /\ pc' = [pc EXCEPT ![c] = "failed"]
           ELSE /\ result' = [result EXCEPT ![c] = Some(textResult(unify(b)))]
                /\ pc' = [pc EXCEPT ![c] = "done"]
    /\ UNCHANGED <<MNEMONIC, client, book, call, request, response>>

\* Faulty variant: the continuation asks the SDK again when the book has no
\* orders.
GetOrderbookUnifyRetrying(c) ==
    /\ pc[c] = "resumed"
    /\ LET b == book[c][1]
       IN  IF Len(b.yes.bids) + Len(b.yes.asks) + Len(b.no.bids) + Len(b.no.asks) = 0
           THEN /\ book' = [book EXCEPT ![c] = Null]
                /\ pc' = [pc EXCEPT ![c] = "awaitOrderbook"]
                /\ UNCHANGED result
           ELSE /\ result' = [result EXCEPT ![c] = Some(textResult(unify(b)))]
                /\ pc' = [pc EXCEPT ![c] = "done"]
                /\ UNCHANGED book
    /\ UNCHANGED <<MNEMONIC, client, call, request, response>>

\* Faulty variant: the document is memoized in a place all calls share, so
\* a continuation returns the document another call is holding.
GetOrderbookUnifyMemoized(c) ==
    /\ pc[c] = "resumed"
    /\ IF \E d \in DOMAIN pc : d # c /\ pc[d] = "done"
       THEN result' = [result EXCEPT
                ![c] = result[CHOOSE d \in DOMAIN pc : d # c /\ pc[d] = "done"]]
       ELSE result' = [result EXCEPT ![c] = Some(textResult(unify(book[c][1])))]
    /\ pc' = [pc EXCEPT ![c] = "done"]
    /\ UNCHANGED <<MNEMONIC, client, book, call, request, response>>

\* The handler's continuation: it unifies the book it awaited and returns
\* the text result.
GetOrderbookUnify(c) ==
    /\ pc[c] = "resumed"
    /\ result' = [result EXCEPT ![c] = Some(textResult(unify(book[c][1])))]
    /\ book' = [book EXCEPT ![c] = Some(inputAfterUnify(book[c][1]))]
    /\ pc' = [pc EXCEPT ![c] = "done"]
    /\ UNCHANGED <<MNEMONIC, client, call, request, response>>

\* client.getOrderbook rejects (the node is unreachable, the market is
\* unknown): the handler does not catch it.
GetOrderbookReject(c) ==
    /\ pc[c] = "awaitOrderbook"
    /\ pc' = [pc EXCEPT ![c] = "failed"]
    /\ result' = [result EXCEPT ![c] = Some(errorResult("getOrderbook"))]
    /\ UNCHANGED <<MNEMONIC, client, book, call, request, response>>

\* The response is sent; the handler's locals are gone.
Respond(c) ==
    /\ pc[c] \in {"done", "failed"}
    /\ pc' = [pc EXCEPT ![c] = "idle"]
    /\ client' = [client EXCEPT ![c] = Null]
    /\ book' = [book EXCEPT ![c] = Null]
    /\ result' = [result EXCEPT ![c] = Null]
    /\ call' = [call EXCEPT ![c] = Null]
    /\ request' = [request EXCEPT ![c] = Null]
    /\ response' = [response EXCEPT ![c] = Null]
    /\ UNCHANGED MNEMONIC

Next ==
    \E c \in DOMAIN pc :
        \/ GetOrderbookCall(c)
        \/ GetOrderbookResolve(c)
        \/ GetOrderbookUnify(c)
        \/ GetOrderbookReject(c)
        \/ Respond(c)

Spec == Init /\ [][Next]_vars

\* The same server against a producer that also delivers entries outside
\* the domain of prices and quantities: a negative price with a negative
\* quantity and a price above 1,000,000, next to two well-formed entries.
MalformedEntries ==
    { [price |-> -20,     quantity |-> -1000000, escrowAppId |-> 105, owner |-> "BOB"],
      [price |-> 1000020, quantity |-> 2500000,  escrowAppId |-> 107, owner |-> "ALICE"],
      [price |-> 400000,  quantity |-> 1000000,  escrowAppId |-> 101, owner |-> "ALICE"],
      [price |-> 1000000, quantity |-> 1000000,  escrowAppId |-> 104, owner |-> "ALICE"] }

GetOrderbookResolveMalformed(c) == GetOrderbookResolveFrom(c, MalformedEntries, MaxOrders)

NextMalformed ==
    \E c \in DOMAIN pc :
        \/ GetOrderbookCall(c)
        \/ GetOrderbookResolveMalformed(c)
        \/ GetOrderbookUnify(c)
        \/ GetOrderbookReject(c)
        \/ Respond(c)

SpecMalformed == Init /\ [][NextMalformed]_vars

\* The same server against a producer with few makers: the entries of three
\* escrows, two of them at one price, in every arrival order.
FewMakersEntries == {e \in Entries : e.escrowAppId \in {101, 102, 103}}

GetOrderbookResolveFewMakers(c) == GetOrderbookResolveFrom(c, FewMakersEntries, MaxOrders)

NextFewMakers ==
    \E c \in DOMAIN pc :
        \/ GetOrderbookCall(c)
        \/ GetOrderbookResolveFewMakers(c)
        \/ GetOrderbookUnify(c)
        \/ GetOrderbookReject(c)
        \/ Respond(c)

SpecFewMakers == Init /\ [][NextFewMakers]_vars

\* The continuation of a settled await is a job of the microtask queue,
\* which the event loop runs to completion: a resumed handler does not stay
\* resumed.  Nothing obliges the SDK to settle its promise or the client to
\* call.  The fairness is on the job having run, the step of the call from
\* "resumed" to "done"; NextFewMakers allows that step to GetOrderbookUnify only.
ContinuationRun(c) == pc[c] = "resumed" /\ pc' = [pc EXCEPT ![c] = "done"]

SpecTermination == SpecFewMakers /\ \A c \in Calls : WF_pc(ContinuationRun(c))

\* The server with two get_orderbook calls in flight at once: the handlers
\* interleave at their awaits.  The books are of at most
\* MaxConcurrentOrders entries of one maker at two prices.
MaxConcurrentOrders == 2

ConcurrentCalls == {1, 2}

ConcurrentEntries == {e \in Entries : e.escrowAppId = 101}

InitConcurrent ==
    /\ MNEMONIC \in Mnemonics
    /\ pc = [c \in ConcurrentCalls |-> "idle"]
    /\ client = [c \in ConcurrentCalls |-> Null]
    /\ book = [c \in ConcurrentCalls |-> Null]
    /\ result = [c \in ConcurrentCalls |-> Null]
    /\ call = [c \in ConcurrentCalls |-> Null]
    /\ request = [c \in ConcurrentCalls |-> Null]
    /\ response = [c \in ConcurrentCalls |-> Null]

GetOrderbookResolveConcurrent(c) ==
    GetOrderbookResolveFrom(c, ConcurrentEntries, MaxConcurrentOrders)

NextConcurrent ==
    \E c \in DOMAIN pc :
        \/ GetOrderbookCall(c)
        \/ GetOrderbookResolveConcurrent(c)
        \/ GetOrderbookUnify(c)
        \/ GetOrderbookReject(c)
        \/ Respond(c)

SpecConcurrent == InitConcurrent /\ [][NextConcurrent]_vars

----------------------------------------------------------------------------
\* The other tools.  Each handler builds its client, awaits one query of it
\* and returns a text; the trading tools need the trading client, the
\* wallet tools resolve their address first.

TradingTools ==
    {"create_limit_order", "create_market_order", "cancel_order", "propose_match",
     "split_shares", "merge_shares", "claim"}

MarketTools == {"get_live_markets", "get_market"}

WalletTools == {"get_open_orders", "get_positions"}

\* The method of AlphaClient each handler awaits.
Method(tool) ==
    CASE tool = "create_limit_order"  -> "createLimitOrder"
      [] tool = "create_market_order" -> "createMarketOrder"
      [] tool = "cancel_order"        -> "cancelOrder"
      [] tool = "propose_match"       -> "proposeMatch"
      [] tool = "split_shares"        -> "splitShares"
      [] tool = "merge_shares"        -> "mergeShares"
      [] tool = "claim"               -> "claim"
      [] tool = "get_live_markets"    -> "getLiveMarkets"
      [] tool = "get_market"          -> "getMarket"
      [] tool = "get_open_orders"     -> "getOpenOrders"
      [] tool = "get_positions"       -> "getPositions"

\* The marketId arguments of get_market and the market the client has for
\* each, if any.
MarketIds == {"1234", "9999"}

MarketOf(marketId) == [id |-> marketId, title |-> "Will it rain?"]

\* A trading tool is called: requireTradingClient(), then the await of the
\* client's method.
TradingToolCall(c) ==
    /\ pc[c] = "idle"
    /\ \E t \in TradingTools :
         call' = [call EXCEPT ![c] = Some([tool |-> t, walletAddress |-> Null, marketId |-> Null])]
         /\ IF requireTradingClient.threw
            THEN /\ pc' = [pc EXCEPT ![c] = "failed"]
                 /\ result' = [result EXCEPT ![c] = Some(errorResult(requireTradingClient.message))]
                 /\ UNCHANGED <<client, request>>
            ELSE /\ pc' = [pc EXCEPT ![c] = "awaitClient"]
                 /\ client' = [client EXCEPT ![c] = requireTradingClient.value]
                 /\ request' = [request EXCEPT ![c] =
                        Some([method |-> Method(t), address |-> Null, marketId |-> Null])]
                 /\ UNCHANGED result
    /\ UNCHANGED <<MNEMONIC, book, response>>

\* get_live_markets or get_market is called: getReadOnlyClient(), then the
\* await of the client's method.
MarketToolCall(c) ==
    /\ pc[c] = "idle"
    /\ \E t \in MarketTools :
       \E m \in IF t = "get_market" THEN {Some(id) : id \in MarketIds} ELSE {Null} :
         /\ call' = [call EXCEPT ![c] = Some([tool |-> t, walletAddress |-> Null, marketId |-> m])]
         /\ IF getReadOnlyClient.threw
            THEN /\ pc' = [pc EXCEPT ![c] = "failed"]
                 /\ result' = [result EXCEPT ![c] = Some(errorResult("mnemonicToSecretKey"))]
                 /\ UNCHANGED <<client, request>>
            ELSE /\ pc' = [pc EXCEPT ![c] = "awaitClient"]
                 /\ client' = [client EXCEPT ![c] = getReadOnlyClient.value]
                 /\ request' = [request EXCEPT ![c] =
                        Some([method |-> Method(t), address |-> Null, marketId |-> m])]
                 /\ UNCHANGED result
    /\ UNCHANGED <<MNEMONIC, book, response>>

\* get_open_orders or get_positions is called: resolveWalletAddress, then
\* getReadOnlyClient(), then the await of the client's method with the
\* address.
WalletToolCall(c) ==
    /\ pc[c] = "idle"
    /\ \E t \in WalletTools : \E w \in WalletArguments :
         LET address == resolveWalletAddress(w)
         IN  /\ call' = [call EXCEPT ![c] = Some([tool |-> t, walletAddress |-> w, marketId |-> Null])]
             /\ IF address.threw
                THEN /\ pc' = [pc EXCEPT ![c] = "failed"]
                     /\ result' = [result EXCEPT ![c] = Some(errorResult(address.message))]
                     /\ UNCHANGED <<client, request>>
                ELSE IF getReadOnlyClient.threw
                THEN /\ pc' = [pc EXCEPT ![c] = "failed"]
                     /\ result' = [result EXCEPT ![c] = Some(errorResult("mnemonicToSecretKey"))]
                     /\ UNCHANGED <<client, request>>
                ELSE /\ pc' = [pc EXCEPT ![c] = "awaitClient"]
                     /\ client' = [client EXCEPT ![c] = getReadOnlyClient.value]
                     /\ request' = [request EXCEPT ![c] =
                            Some([method |-> Method(t), address |-> address.value, marketId |-> Null])]
                     /\ UNCHANGED result
    /\ UNCHANGED <<MNEMONIC, book, response>>

\* Faulty variant: the missing market is serialized like a market, as
\* JSON.stringify(null).
marketTextSerializingNull(marketId, market) ==
    IF market = Null
    THEN <<"JSON", Null>>
    ELSE <<"JSON", market[1]>>

\* The text get_market returns: the market as JSON, or that there is none.
marketText(marketId, market) ==
    IF market = Null
    THEN <<"Market \"" \o marketId \o "\" not found.">>
    ELSE <<"JSON", market[1]>>

\* client.getMarket resolves, with the market or with nothing, and the
\* handler returns its text.
GetMarketResolve(c) ==
    /\ pc[c] = "awaitClient"
    /\ request[c][1].method = "getMarket"
    /\ \E market \in {Null, Some(MarketOf(request[c][1].marketId[1]))} :
         /\ response' = [response EXCEPT ![c] = Some(market)]
         /\ result' = [result EXCEPT ![c] =
                Some(textResult(marketText(call[c][1].marketId[1], market)))]
    /\ pc' = [pc EXCEPT ![c] = "done"]
    /\ UNCHANGED <<MNEMONIC, client, book, call, request>>

\* The query of any other tool resolves and the handler returns the text
\* it makes of the answer.
ClientResolve(c) ==
    /\ pc[c] = "awaitClient"
    /\ request[c][1].method # "getMarket"
    /\ response' = [response EXCEPT ![c] = Some(<<"answer", request[c][1].method>>)]
    /\ result' = [result EXCEPT ![c] = Some(textResult(<<"text", request[c][1].method>>))]
    /\ pc' = [pc EXCEPT ![c] = "done"]
    /\ UNCHANGED <<MNEMONIC, client, book, call, request>>

\* The query rejects and the handler throws.
ClientReject(c) ==
    /\ pc[c] = "awaitClient"
    /\ pc' = [pc EXCEPT ![c] = "failed"]
    /\ result' = [result EXCEPT ![c] = Some(errorResult(request[c][1].method))]
    /\ UNCHANGED <<MNEMONIC, client, book, call, request, response>>

\* The server with all its tools; the orderbooks are those of SpecConcurrent.
NextTools ==
    \E c \in DOMAIN pc :
        \/ TradingToolCall(c)
        \/ MarketToolCall(c)
        \/ WalletToolCall(c)
        \/ GetMarketResolve(c)
        \/ ClientResolve(c)
        \/ ClientReject(c)
        \/ GetOrderbookCall(c)
        \/ GetOrderbookResolveConcurrent(c)
        \/ GetOrderbookUnify(c)
        \/ GetOrderbookReject(c)
        \/ Respond(c)

SpecTools == Init /\ [][NextTools]_vars

----------------------------------------------------------------------------
\* Properties of get_orderbook, read off a call that has returned: the book
\* the SDK resolved with and the document the handler returned.

Returned == {c \in DOMAIN pc : pc[c] = "done"}

RawBook(c) == book[c][1]

Document(c) == result[c][1].content[1].text

UnifiedAsks(c) == Document(c).unified.asks

UnifiedBids(c) == Document(c).unified.bids

RawCount(c) ==
    Len(RawBook(c).yes.bids) + Len(RawBook(c).yes.asks)
        + Len(RawBook(c).no.bids) + Len(RawBook(c).no.asks)

\* The number of times x occurs in the sequence s.
Occurrences(s, x) == Cardinality({i \in DOMAIN s : s[i] = x})

\* Two sequences hold the same elements the same number of times.
SameBag(s, t) ==
    \A x \in {s[i] : i \in DOMAIN s} \cup {t[i] : i \in DOMAIN t} :
        Occurrences(s, x) = Occurrences(t, x)

\* The entries of a unified side that carry the given source tag, each as
\* <<escrow, owner, priceRaw>>.
TaggedPrices(side, tag) ==
    LET IsTagged(u) == u.source = tag
        tagged == SelectSeq(side, IsTagged)
    IN  [i \in DOMAIN tagged |-> <<tagged[i].escrowAppId, tagged[i].owner, tagged[i].priceRaw>>]

\* The entries of a raw side as <<escrow, owner, price>>, and with the
\* price complemented.
RawPrices(raw) == [i \in DOMAIN raw |-> <<raw[i].escrowAppId, raw[i].owner, raw[i].price>>]

RawComplements(raw) ==
    [i \in DOMAIN raw |-> <<raw[i].escrowAppId, raw[i].owner, 1000000 - raw[i].price>>]

\* C1: the unified asks and the unified bids together hold as many entries
\* as the four raw sides.
C1_Conservation ==
    \A c \in Returned : Len(UnifiedAsks(c)) + Len(UnifiedBids(c)) = RawCount(c)

\* A returned book with entries on three raw sides, both NO sides among them.
C1_Witness ==
    \E c \in Returned :
        /\ Len(RawBook(c).no.bids) > 0
        /\ Len(RawBook(c).no.asks) > 0
        /\ Len(RawBook(c).yes.asks) > 0
        /\ Len(UnifiedAsks(c)) = 2

\* C2: totalOrders is the sum of the lengths of the four raw sides.
C2_TotalOrders ==
    \A c \in Returned : Document(c).totalOrders = RawCount(c)

\* A returned book of three orders, all of them unified bids.
C2_Witness ==
    \E c \in Returned :
        /\ Document(c).totalOrders = 3
        /\ Len(UnifiedAsks(c)) = 0
        /\ Len(RawBook(c).yes.bids) = 1
        /\ Len(RawBook(c).no.asks) = 2

\* C3: the unified entries that come from a NO side carry 1,000,000 minus
\* the price of their raw entries: entry for entry, the NO bids among the
\* asks and the NO asks among the bids.
C3_Complement ==
    \A c \in Returned :
        /\ SameBag(TaggedPrices(UnifiedAsks(c), "NO bid (= YES ask)"),
                   RawComplements(RawBook(c).no.bids))
        /\ SameBag(TaggedPrices(UnifiedBids(c), "NO ask (= YES bid)"),
                   RawComplements(RawBook(c).no.asks))

\* A returned book with a NO bid at 400000 shown as an ask at 600000 and a
\* NO ask at -20 shown as a bid at 1000020.
C3_Witness ==
    \E c \in Returned :
        /\ \E i \in DOMAIN RawBook(c).no.bids : RawBook(c).no.bids[i].price = 400000
        /\ \E i \in DOMAIN RawBook(c).no.asks : RawBook(c).no.asks[i].price = -20
        /\ \E i \in DOMAIN UnifiedAsks(c) :
             /\ UnifiedAsks(c)[i].source = "NO bid (= YES ask)"
             /\ UnifiedAsks(c)[i].priceRaw = 600000
        /\ \E i \in DOMAIN UnifiedBids(c) :
             /\ UnifiedBids(c)[i].source = "NO ask (= YES bid)"
             /\ UnifiedBids(c)[i].priceRaw = 1000020

\* C4: the unified entries that come from a YES side carry the price of
\* their raw entries unchanged.
C4_PassThrough ==
    \A c \in Returned :
        /\ SameBag(TaggedPrices(UnifiedAsks(c), "YES ask"), RawPrices(RawBook(c).yes.asks))
        /\ SameBag(TaggedPrices(UnifiedBids(c), "YES bid"), RawPrices(RawBook(c).yes.bids))

\* A returned book with a YES ask at 600000 and a YES bid at 400000, shown
\* at those prices.
C4_Witness ==
    \E c \in Returned :
        /\ \E i \in DOMAIN RawBook(c).yes.asks : RawBook(c).yes.asks[i].price = 600000
        /\ \E i \in DOMAIN RawBook(c).yes.bids : RawBook(c).yes.bids[i].price = 400000
        /\ \E i \in DOMAIN UnifiedAsks(c) :
             UnifiedAsks(c)[i].source = "YES ask" /\ UnifiedAsks(c)[i].priceRaw = 600000
        /\ \E i \in DOMAIN UnifiedBids(c) :
             UnifiedBids(c)[i].source = "YES bid" /\ UnifiedBids(c)[i].priceRaw = 400000

\* C5: asks never decrease in priceRaw and bids never increase, whatever
\* the order of the raw sides.
C5_SortOrder ==
    \A c \in Returned :
        /\ \A i \in 1..(Len(UnifiedAsks(c)) - 1) :
             UnifiedAsks(c)[i].priceRaw <= UnifiedAsks(c)[i + 1].priceRaw
        /\ \A i \in 1..(Len(UnifiedBids(c)) - 1) :
             UnifiedBids(c)[i].priceRaw >= UnifiedBids(c)[i + 1].priceRaw

\* A returned book whose YES asks arrived dearest first and whose YES bids
\* arrived lowest first.
C5_Witness ==
    \E c \in Returned :
        /\ Len(RawBook(c).yes.asks) = 2
        /\ RawBook(c).yes.asks[1].price > RawBook(c).yes.asks[2].price
        /\ Len(RawBook(c).yes.bids) = 1
        /\ Len(RawBook(c).no.asks) = 0
        /\ UnifiedAsks(c)[1].priceRaw < UnifiedAsks(c)[2].priceRaw

\* The entries of a sequence of orders as <<escrow, owner>>.
Orders(side) == [i \in DOMAIN side |-> <<side[i].escrowAppId, side[i].owner>>]

\* C6: the unified asks are the YES asks and the NO bids, the unified bids
\* are the YES bids and the NO asks, each order once: none dropped, none
\* twice, none on the other side.
C6_Partition ==
    \A c \in Returned :
        /\ SameBag(Orders(UnifiedAsks(c)),
                   Orders(RawBook(c).yes.asks) \o Orders(RawBook(c).no.bids))
        /\ SameBag(Orders(UnifiedBids(c)),
                   Orders(RawBook(c).yes.bids) \o Orders(RawBook(c).no.asks))

\* A returned book with orders of different escrows on three sides, both NO
\* sides among them.
C6_Witness ==
    \E c \in Returned :
        /\ Len(RawBook(c).no.bids) = 1
        /\ Len(RawBook(c).no.asks) = 1
        /\ Len(RawBook(c).yes.bids) = 1
        /\ RawBook(c).no.bids[1].escrowAppId # RawBook(c).no.asks[1].escrowAppId
        /\ RawBook(c).no.bids[1].escrowAppId # RawBook(c).yes.bids[1].escrowAppId
        /\ Len(UnifiedAsks(c)) = 1
        /\ Len(UnifiedBids(c)) = 2

\* The returned calls whose unified book has both sides.
TwoSided == {c \in Returned : Len(UnifiedAsks(c)) > 0 /\ Len(UnifiedBids(c)) > 0}

\* The least and the greatest element of a non-empty set of integers.
Least(S) == CHOOSE x \in S : \A y \in S : x <= y

Greatest(S) == CHOOSE x \in S : \A y \in S : x >= y

\* The YES prices offered and bid in the raw book.
AskPrices(b) ==
    {b.yes.asks[i].price : i \in DOMAIN b.yes.asks}
        \cup {1000000 - b.no.bids[i].price : i \in DOMAIN b.no.bids}

BidPrices(b) ==
    {b.yes.bids[i].price : i \in DOMAIN b.yes.bids}
        \cup {1000000 - b.no.asks[i].price : i \in DOMAIN b.no.asks}

\* The first ask's price less the first bid's, in micro-units.
TopDifference(c) == UnifiedAsks(c)[1].priceRaw - UnifiedBids(c)[1].priceRaw

\* A number of hundredths of a cent written as cents with two decimals.
CentsText(negative, h) ==
    (IF negative THEN "-" ELSE "") \o ToString(h \div 100) \o "."
        \o (IF h % 100 < 10 THEN "0" ELSE "") \o ToString(h % 100) \o "¢"

\* C7 as stated: the spread is the exact micro-unit difference of the first
\* ask and the first bid.  Read as generously as the returned text allows:
\* the text is the difference in cents with nothing rounded away.
C7_ExactDifference ==
    \A c \in TwoSided :
        \E h \in {Abs(TopDifference(c)) \div 100, Abs(TopDifference(c)) \div 100 + 1} :
            /\ Document(c).unified.spread = CentsText(TopDifference(c) < 0, h)
            /\ h * 100 = Abs(TopDifference(c))

\* C7 as amended: with both sides present, the spread is the text of the
\* first ask's price less the first bid's price, which is the least ask
\* price less the greatest bid price, in cents rounded to the nearest
\* hundredth of a cent and followed by the cent sign.
C7_SpreadText ==
    \A c \in TwoSided :
        /\ TopDifference(c) = Least(AskPrices(RawBook(c))) - Greatest(BidPrices(RawBook(c)))
        /\ \E h \in {Abs(TopDifference(c)) \div 100, Abs(TopDifference(c)) \div 100 + 1} :
             /\ Document(c).unified.spread = CentsText(TopDifference(c) < 0, h)
             /\ Abs(h * 100 - Abs(TopDifference(c))) <= 50

\* A returned book with two asks arriving dearest first and one bid, whose
\* spread is forty cents.
C7_Witness ==
    \E c \in TwoSided :
        /\ Len(UnifiedAsks(c)) = 2
        /\ UnifiedAsks(c)[1].priceRaw # UnifiedAsks(c)[2].priceRaw
        /\ RawBook(c).yes.asks # <<>>
        /\ RawBook(c).yes.asks[1].price = 1000000
        /\ TopDifference(c) = 400000
        /\ Document(c).unified.spread = "40.00¢"

\* C8: the spread is "N/A" exactly when the unified asks or the unified
\* bids are empty; equal best prices give the spread "0.00¢", not "N/A".
C8_SpreadUnavailable ==
    \A c \in Returned :
        /\ (Document(c).unified.spread = "N/A")
             <=> (Len(UnifiedAsks(c)) = 0 \/ Len(UnifiedBids(c)) = 0)
        /\ (c \in TwoSided /\ TopDifference(c) = 0)
             => Document(c).unified.spread = "0.00¢"

\* A returned book with YES asks only: no bids, the asks in order, no spread.
C8_Witness ==
    \E c \in Returned :
        /\ Len(RawBook(c).yes.asks) = 2
        /\ RawCount(c) = 2
        /\ Len(UnifiedBids(c)) = 0
        /\ Len(UnifiedAsks(c)) = 2
        /\ UnifiedAsks(c)[1].priceRaw < UnifiedAsks(c)[2].priceRaw
        /\ Document(c).unified.spread = "N/A"

\* The entries of a unified side at the price v, in their order, each as
\* <<source, escrow, owner>>.
UnifiedAt(side, v) ==
    LET AtPrice(u) == u.priceRaw = v
        at == SelectSeq(side, AtPrice)
    IN  [i \in DOMAIN at |-> <<at[i].source, at[i].escrowAppId, at[i].owner>>]

\* The entries of a raw side whose price, complemented or not, is v, in
\* their order, each as <<tag, escrow, owner>>.
RawAt(raw, tag, complemented, v) ==
    LET AtPrice(e) == (IF complemented THEN 1000000 - e.price ELSE e.price) = v
        at == SelectSeq(raw, AtPrice)
    IN  [i \in DOMAIN at |-> <<tag, at[i].escrowAppId, at[i].owner>>]

\* C9: the entries of a unified side that share a price stand in the order
\* of the merged candidates: the YES entries in their raw order, then the
\* NO entries in theirs.
C9_Stable ==
    \A c \in Returned :
        /\ \A v \in AskPrices(RawBook(c)) :
             UnifiedAt(UnifiedAsks(c), v)
                = RawAt(RawBook(c).yes.asks, "YES ask", FALSE, v)
                    \o RawAt(RawBook(c).no.bids, "NO bid (= YES ask)", TRUE, v)
        /\ \A v \in BidPrices(RawBook(c)) :
             UnifiedAt(UnifiedBids(c), v)
                = RawAt(RawBook(c).yes.bids, "YES bid", FALSE, v)
                    \o RawAt(RawBook(c).no.asks, "NO ask (= YES bid)", TRUE, v)

\* A returned book with three asks at one price: two YES asks of different
\* escrows and a complemented NO bid, kept in that order.
C9_Witness ==
    \E c \in Returned :
        /\ Len(RawBook(c).yes.asks) = 2
        /\ Len(RawBook(c).no.bids) = 1
        /\ \A i \in 1..3 : UnifiedAsks(c)[i].priceRaw = 400000
        /\ RawBook(c).yes.asks[1].escrowAppId = 102
        /\ RawBook(c).yes.asks[2].escrowAppId = 101
        /\ UnifiedAsks(c)[1].escrowAppId = 102
        /\ UnifiedAsks(c)[2].escrowAppId = 101
        /\ UnifiedAsks(c)[3].source = "NO bid (= YES ask)"

(***************************************************************************)
(* Frame of the unification                                                *)
(***************************************************************************)

\* C11: the handler's continuation leaves the book it was given as it was:
\* the four raw sides hold the same entries, in the same order, with the
\* same price, quantity, escrow id and owner after the unification as
\* before it.
C11_InputUnchanged ==
    [][\A c \in DOMAIN pc : pc[c] = "resumed" => book'[c] = book[c]]_vars

\* A returned call whose YES asks arrived dearest first: the unified asks
\* are in ascending order and the raw YES asks are still dearest first.
C11_Witness ==
    \E c \in Returned :
        /\ Len(RawBook(c).yes.asks) = 2
        /\ Len(RawBook(c).no.bids) = 0
        /\ RawBook(c).yes.asks[1].price > RawBook(c).yes.asks[2].price
        /\ UnifiedAsks(c)[1].priceRaw < UnifiedAsks(c)[2].priceRaw
        /\ UnifiedAsks(c)[1].escrowAppId = RawBook(c).yes.asks[2].escrowAppId

\* The raw entries each unified side is built from.
Sources(c, side) ==
    IF side = "asks" THEN RawBook(c).yes.asks \o RawBook(c).no.bids
    ELSE RawBook(c).yes.bids \o RawBook(c).no.asks

\* How a text states a quantity of micro-units: "exact" if it is the
\* two-decimal numeral of exactly quantity / 1,000,000, "rounded" if it is
\* a two-decimal numeral at most half a hundredth away from it.
QuantityStated(how, quantity, text) ==
    LET f == Abs(quantity) \div 10000
        r == Abs(quantity) % 10000
    IN  IF how = "exact"
        THEN r = 0 /\ text = FixedString(quantity < 0, f)
        ELSE \/ r <= 5000 /\ text = FixedString(quantity < 0, f)
             \/ r >= 5000 /\ text = FixedString(quantity < 0, f + 1)

\* Every unified entry of a side stands for one raw entry of its sources,
\* each raw entry for one unified entry, with the same escrow and owner and
\* with the quantity stated as told.
CarriedFrom(how, unified, sources) ==
    /\ Len(unified) = Len(sources)
    /\ \/ Len(sources) = 0
       \/ \E f \in Permutations(1..Len(sources)) :
            \A i \in 1..Len(unified) :
                /\ unified[i].escrowAppId = sources[f[i]].escrowAppId
                /\ unified[i].owner = sources[f[i]].owner
                /\ QuantityStated(how, sources[f[i]].quantity, unified[i].shares)

\* C12 as stated: each unified entry carries the escrow, the owner and the
\* exact quantity of its source entry, nothing rounded away.
C12_ExactQuantity ==
    \A c \in Returned :
        /\ CarriedFrom("exact", UnifiedAsks(c), Sources(c, "asks"))
        /\ CarriedFrom("exact", UnifiedBids(c), Sources(c, "bids"))

\* C12 (amended): each unified entry carries the escrow and the owner of its
\* source entry unchanged, and states the quantity in shares as a numeral of
\* two decimals at most half a hundredth of a share away from
\* quantity / 1,000,000.
C12_QuantityInShares ==
    \A c \in Returned :
        /\ CarriedFrom("rounded", UnifiedAsks(c), Sources(c, "asks"))
        /\ CarriedFrom("rounded", UnifiedBids(c), Sources(c, "bids"))

\* A returned book with a NO bid of 1,005,000 micro-units next to a YES ask
\* of 2,500,000 of another owner: the unified asks state 1.00 and 2.50.
C12_Witness ==
    \E c \in Returned :
        /\ Len(RawBook(c).yes.asks) = 1
        /\ Len(RawBook(c).no.bids) = 1
        /\ RawBook(c).yes.asks[1].quantity = 2500000
        /\ RawBook(c).no.bids[1].quantity = 1005000
        /\ RawBook(c).yes.asks[1].owner # RawBook(c).no.bids[1].owner
        /\ \E i \in 1..2 :
            /\ UnifiedAsks(c)[i].shares = "1.00"
            /\ UnifiedAsks(c)[i].owner = RawBook(c).no.bids[1].owner
            /\ UnifiedAsks(c)[3 - i].shares = "2.50"
            /\ UnifiedAsks(c)[3 - i].escrowAppId = RawBook(c).yes.asks[1].escrowAppId

(***************************************************************************)
(* Origin tags                                                             *)
(***************************************************************************)

\* The orders of a sequence as <<escrow, owner, tag>>: with the given tag
\* for raw entries, with their own source tag for unified entries.
TaggedAs(raw, tag) ==
    [i \in DOMAIN raw |-> <<raw[i].escrowAppId, raw[i].owner, tag>>]

OwnTags(side) ==
    [i \in DOMAIN side |-> <<side[i].escrowAppId, side[i].owner, side[i].source>>]

\* C13: each unified entry's tag names the raw side it came from: the asks
\* are the YES asks tagged "YES ask" and the NO bids tagged
\* "NO bid (= YES ask)", the bids are the YES bids tagged "YES bid" and the
\* NO asks tagged "NO ask (= YES bid)"; so every ask has an ask-side tag and
\* every bid a bid-side tag.
C13_OriginTags ==
    \A c \in Returned :
        /\ SameBag(OwnTags(UnifiedAsks(c)),
                   TaggedAs(RawBook(c).yes.asks, "YES ask")
                       \o TaggedAs(RawBook(c).no.bids, "NO bid (= YES ask)"))
        /\ SameBag(OwnTags(UnifiedBids(c)),
                   TaggedAs(RawBook(c).yes.bids, "YES bid")
                       \o TaggedAs(RawBook(c).no.asks, "NO ask (= YES bid)"))
        /\ \A i \in DOMAIN UnifiedAsks(c) :
               UnifiedAsks(c)[i].source \in {"YES ask", "NO bid (= YES ask)"}
        /\ \A i \in DOMAIN UnifiedBids(c) :
               UnifiedBids(c)[i].source \in {"YES bid", "NO ask (= YES bid)"}

\* A returned book in which the same escrow and owner have a YES ask, a NO
\* bid and a NO ask: the two asks differ in their tag only by their origin.
C13_Witness ==
    \E c \in Returned :
        /\ Len(RawBook(c).yes.asks) = 1
        /\ Len(RawBook(c).no.bids) = 1
        /\ Len(RawBook(c).no.asks) = 1
        /\ RawBook(c).yes.asks[1].escrowAppId = RawBook(c).no.bids[1].escrowAppId
        /\ RawBook(c).yes.asks[1].escrowAppId = RawBook(c).no.asks[1].escrowAppId
        /\ {UnifiedAsks(c)[i].source : i \in 1..2} = {"YES ask", "NO bid (= YES ask)"}
        /\ UnifiedBids(c)[1].source = "NO ask (= YES bid)"

(***************************************************************************)
(* Edge cases of the input                                                 *)
(***************************************************************************)

\* The calls whose handler has run to its end, by a return or by a throw,
\* after the SDK resolved with a book.
Unified == {c \in DOMAIN pc : book[c] # Null /\ pc[c] \in {"done", "failed"}}

\* C14: a book whose four sides are all empty is not an error: the call
\* returns the document with empty asks, empty bids, spread "N/A" and
\* totalOrders 0.
C14_EmptyBook ==
    \A c \in Unified :
        RawCount(c) = 0 =>
            /\ pc[c] = "done"
            /\ result[c] = Some([content |-> <<[type |-> "text",
                   text |-> [unified |-> [asks |-> <<>>, bids |-> <<>>, spread |-> "N/A"],
                             totalOrders |-> 0]]>>])

\* A call that returned for a book without orders.
C14_Witness ==
    \E c \in Returned :
        /\ RawBook(c) = [yes |-> [bids |-> <<>>, asks |-> <<>>],
                         no |-> [bids |-> <<>>, asks |-> <<>>]]
        /\ Document(c).totalOrders = 0

\* How many entries of a unified side carry the tag and the price, and how
\* many entries of a raw side carry the price.
TaggedAt(side, tag, v) ==
    Cardinality({i \in DOMAIN side : side[i].source = tag /\ side[i].priceRaw = v})

PricedAt(raw, v) == Cardinality({i \in DOMAIN raw : raw[i].price = v})

\* C15: the boundary prices are complemented like any other: every NO bid
\* at 0 is a unified ask at 1,000,000 and every NO ask at 1,000,000 is a
\* unified bid at 0, none filtered, clamped or rejected.
C15_Boundary ==
    \A c \in Unified :
        /\ pc[c] = "done"
        /\ TaggedAt(UnifiedAsks(c), "NO bid (= YES ask)", 1000000)
               = PricedAt(RawBook(c).no.bids, 0)
        /\ TaggedAt(UnifiedBids(c), "NO ask (= YES bid)", 0)
               = PricedAt(RawBook(c).no.asks, 1000000)

\* A returned book with a NO bid at 0 and a NO ask at 1,000,000: the only
\* unified ask is at 1,000,000 and the only unified bid at 0.
C15_Witness ==
    \E c \in Returned :
        /\ Len(RawBook(c).no.bids) = 1
        /\ Len(RawBook(c).no.asks) = 1
        /\ RawBook(c).no.bids[1].price = 0
        /\ RawBook(c).no.asks[1].price = 1000000
        /\ Len(UnifiedAsks(c)) = 1
        /\ UnifiedAsks(c)[1].priceRaw = 1000000
        /\ Len(UnifiedBids(c)) = 1
        /\ UnifiedBids(c)[1].priceRaw = 0

\* An entry outside the domain: a negative or above-scale price or a
\* negative quantity.
OutOfDomain(e) == e.price < 0 \/ e.price > 1000000 \/ e.quantity < 0

\* The calls that ran to their end on a book with an entry outside the
\* domain.
UnifiedMalformed ==
    {c \in Unified :
        \E i \in DOMAIN (Sources(c, "asks") \o Sources(c, "bids")) :
            OutOfDomain((Sources(c, "asks") \o Sources(c, "bids"))[i])}

\* C16: entries outside the domain raise no error and are passed through:
\* the call returns, every entry appears with its price (complemented if it
\* comes from a NO side) and its quantity in shares, no entry is lost and
\* both sides are in their order.
C16_OutOfDomain ==
    \A c \in UnifiedMalformed :
        /\ pc[c] = "done"
        /\ SameBag(TaggedPrices(UnifiedAsks(c), "YES ask"), RawPrices(RawBook(c).yes.asks))
        /\ SameBag(TaggedPrices(UnifiedBids(c), "YES bid"), RawPrices(RawBook(c).yes.bids))
        /\ SameBag(TaggedPrices(UnifiedAsks(c), "NO bid (= YES ask)"),
                   RawComplements(RawBook(c).no.bids))
        /\ SameBag(TaggedPrices(UnifiedBids(c), "NO ask (= YES bid)"),
                   RawComplements(RawBook(c).no.asks))
        /\ CarriedFrom("rounded", UnifiedAsks(c), Sources(c, "asks"))
        /\ CarriedFrom("rounded", UnifiedBids(c), Sources(c, "bids"))
        /\ Len(UnifiedAsks(c)) + Len(UnifiedBids(c)) = RawCount(c)
        /\ \A i \in 1..(Len(UnifiedAsks(c)) - 1) :
             UnifiedAsks(c)[i].priceRaw <= UnifiedAsks(c)[i + 1].priceRaw
        /\ \A i \in 1..(Len(UnifiedBids(c)) - 1) :
             UnifiedBids(c)[i].priceRaw >= UnifiedBids(c)[i + 1].priceRaw

\* A returned book with a YES ask above the scale, a NO bid at a negative
\* price and a YES bid of negative quantity: the asks are at 1,000,020 both,
\* the bid is at -20 with -1.00 shares.
C16_Witness ==
    \E c \in Returned :
        /\ Len(RawBook(c).yes.asks) = 1
        /\ Len(RawBook(c).no.bids) = 1
        /\ Len(RawBook(c).yes.bids) = 1
        /\ RawBook(c).yes.asks[1].price = 1000020
        /\ RawBook(c).no.bids[1].price = -20
        /\ RawBook(c).yes.bids[1].quantity = -1000000
        /\ UnifiedAsks(c)[1].priceRaw = 1000020
        /\ UnifiedAsks(c)[1].source = "YES ask"
        /\ UnifiedAsks(c)[2].priceRaw = 1000020
        /\ UnifiedAsks(c)[2].source = "NO bid (= YES ask)"
        /\ UnifiedBids(c)[1].priceRaw = -20
        /\ UnifiedBids(c)[1].shares = "-1.00"

\* How many entries of a raw or unified sequence carry the escrow id.
WithEscrow(s, id) == Cardinality({i \in DOMAIN s : s[i].escrowAppId = id})

\* The escrow ids of a book.
EscrowIds(b) ==
    {b.yes.bids[i].escrowAppId : i \in DOMAIN b.yes.bids}
        \cup {b.yes.asks[i].escrowAppId : i \in DOMAIN b.yes.asks}
        \cup {b.no.bids[i].escrowAppId : i \in DOMAIN b.no.bids}
        \cup {b.no.asks[i].escrowAppId : i \in DOMAIN b.no.asks}

\* C17: nothing is deduplicated: an escrow id is in the unified asks as
\* often as in the YES asks and the NO bids together, and in the unified
\* bids as often as in the YES bids and the NO asks together.
C17_NoDedup ==
    \A c \in Returned :
        \A id \in EscrowIds(RawBook(c)) :
            /\ WithEscrow(UnifiedAsks(c), id)
                   = WithEscrow(RawBook(c).yes.asks, id) + WithEscrow(RawBook(c).no.bids, id)
            /\ WithEscrow(UnifiedBids(c), id)
                   = WithEscrow(RawBook(c).yes.bids, id) + WithEscrow(RawBook(c).no.asks, id)

\* A returned book in which one escrow id has two YES bids and a NO bid:
\* it is twice in the unified bids and once in the unified asks.
C17_Witness ==
    \E c \in Returned :
        /\ Len(RawBook(c).yes.bids) = 2
        /\ Len(RawBook(c).no.bids) = 1
        /\ RawBook(c).yes.bids[1].escrowAppId = RawBook(c).yes.bids[2].escrowAppId
        /\ RawBook(c).yes.bids[1].escrowAppId = RawBook(c).no.bids[1].escrowAppId
        /\ Len(UnifiedBids(c)) = 2
        /\ UnifiedBids(c)[1].escrowAppId = UnifiedBids(c)[2].escrowAppId
        /\ UnifiedAsks(c)[1].escrowAppId = UnifiedBids(c)[1].escrowAppId

(***************************************************************************)
(* Arrival order                                                           *)
(***************************************************************************)

\* The arrangements of a sequence, and the books that hold the entries of a
\* book in some arrangement within each of its four sides.
Arrangements(s) ==
    IF s = <<>> THEN {<<>>}
    ELSE {[i \in DOMAIN s |-> s[f[i]]] : f \in Permutations(DOMAIN s)}

Rearranged(b) ==
    {[yes |-> [bids |-> yb, asks |-> ya], no |-> [bids |-> nb, asks |-> na]] :
        yb \in Arrangements(b.yes.bids), ya \in Arrangements(b.yes.asks),
        nb \in Arrangements(b.no.bids), na \in Arrangements(b.no.asks)}

\* What of a returned document does not depend on the arrival order: the
\* prices of the asks and of the bids in their sequence, the spread and
\* totalOrders.
PriceSequence(side) == [i \in DOMAIN side |-> side[i].priceRaw]

PriceView(document) ==
    <<PriceSequence(document.unified.asks), PriceSequence(document.unified.bids),
      document.unified.spread, document.totalOrders>>

\* C18: had the entries of the book arrived in any other order within each
\* raw side, the returned asks and bids would show the same sequences of
\* prices, the same spread and the same totalOrders.
C18_ArrivalOrder ==
    \A c \in Returned :
        \A other \in Rearranged(RawBook(c)) :
            PriceView(unify(other)) = PriceView(Document(c))

\* A returned book with two YES asks at one price and a dearer NO bid: in
\* another arrival order the document differs, in the order of the two asks
\* at one price, and its prices do not.
C18_Witness ==
    \E c \in Returned :
        /\ Len(RawBook(c).yes.asks) = 2
        /\ Len(RawBook(c).no.bids) = 1
        /\ RawBook(c).yes.asks[1].price = RawBook(c).yes.asks[2].price
        /\ RawBook(c).yes.asks[1].owner # RawBook(c).yes.asks[2].owner
        /\ UnifiedAsks(c)[3].source = "NO bid (= YES ask)"
        /\ \E other \in Rearranged(RawBook(c)) :
            /\ other # RawBook(c)
            /\ unify(other) # Document(c)
            /\ PriceView(unify(other)) = PriceView(Document(c))

(***************************************************************************)
(* Termination                                                             *)
(***************************************************************************)

\* C19: once the SDK has resolved with a book, the handler returns its
\* document: every resumed call gets to its return, and a resumed call
\* takes no step back to the SDK, to a wait or to a throw.
C19_Terminates ==
    /\ \A c \in Calls : pc[c] = "resumed" ~> pc[c] = "done"
    /\ [][\A c \in Calls : pc[c] = "resumed" => pc'[c] \in {"resumed", "done"}]_vars

\* A call that returned for a book of MaxOrders entries that all went to
\* the unified asks, the longest sort of the model.
C19_Witness ==
    \E c \in Returned :
        /\ RawCount(c) = MaxOrders
        /\ Len(UnifiedAsks(c)) = MaxOrders
        /\ Len(RawBook(c).no.bids) > 0
        /\ UnifiedAsks(c)[1].priceRaw < UnifiedAsks(c)[MaxOrders].priceRaw

(***************************************************************************)
(* Concurrent calls                                                        *)
(***************************************************************************)

\* C20: calls share no state: whatever the other calls have done or are
\* doing, and whatever this slot returned before, the document of a
\* returned call is the unification of the book that call awaited, and two
\* calls holding the same book hold the same document.
C20_Independent ==
    \A c \in Returned :
        /\ Document(c) = unify(RawBook(c))
        /\ \A d \in Returned : RawBook(d) = RawBook(c) => Document(d) = Document(c)

\* Two calls have returned at once, for books of the same two entries in
\* opposite arrival orders on opposite sides: each holds its own document.
C20_Witness ==
    /\ Returned = ConcurrentCalls
    /\ Len(RawBook(1).yes.asks) = 2
    /\ Len(RawBook(2).no.asks) = 2
    /\ RawBook(1).yes.asks[1] = RawBook(2).no.asks[2]
    /\ RawBook(1).yes.asks[2] = RawBook(2).no.asks[1]
    /\ RawBook(1).yes.asks[1].price > RawBook(1).yes.asks[2].price
    /\ Len(UnifiedAsks(1)) = 2
    /\ Len(UnifiedBids(1)) = 0
    /\ Len(UnifiedAsks(2)) = 0
    /\ Len(UnifiedBids(2)) = 2
    /\ Document(1) # Document(2)

(***************************************************************************)
(* Clients and wallet addresses of the tools                               *)
(***************************************************************************)

\* The calls of the tools other than get_orderbook that are under way or
\* have ended, and what each was called with.
Called == {c \in DOMAIN pc : call[c] # Null}

Tool(c) == call[c][1].tool

\* C21: without ALPHA_MNEMONIC every trading tool fails with the error that
\* says the mnemonic is required, and it has neither a client nor made a
\* query of one: nothing is submitted.
C21_TradingNeedsMnemonic ==
    MNEMONIC = "unset" =>
        \A c \in Called :
            Tool(c) \in TradingTools =>
                /\ pc[c] = "failed"
                /\ result[c] = Some([isError |-> TRUE, message |->
                       "ALPHA_MNEMONIC environment variable is required for trading operations. Set it in your MCP server configuration."])
                /\ client[c] = Null
                /\ request[c] = Null
                /\ response[c] = Null

\* Without a mnemonic, create_limit_order has been called and has failed.
C21_Witness ==
    /\ MNEMONIC = "unset"
    /\ \E c \in Called :
        /\ Tool(c) = "create_limit_order"
        /\ pc[c] = "failed"
        /\ result[c][1].isError

\* The read-only tools other than get_orderbook.
ReadOnlyTools == MarketTools \cup WalletTools

\* The calls of read-only tools, get_orderbook among them, that have ended
\* without having built a client or made their query.
FailedEarly ==
    {c \in DOMAIN pc :
        /\ pc[c] = "failed" /\ request[c] = Null /\ client[c] = Null
        /\ c \in Called => Tool(c) \in ReadOnlyTools}

\* A result is a text, not an error.
IsText(r) == DOMAIN r = {"content"} /\ r.content[1].type = "text"

\* C22 as stated: without ALPHA_MNEMONIC every read-only tool reaches its
\* query whatever arguments it is called with or without, and returns a
\* text when the query resolves.
C22_ReadOnlyAlways ==
    MNEMONIC = "unset" =>
        /\ \A c \in FailedEarly : FALSE
        /\ \A c \in Called : Tool(c) \in ReadOnlyTools =>
               /\ request[c] # Null
               /\ pc[c] = "done" => IsText(result[c][1])

\* C22 (amended): without ALPHA_MNEMONIC get_live_markets, get_market and
\* get_orderbook reach their query, and get_open_orders and get_positions
\* do when they are called with a non-empty walletAddress; each returns a
\* text when its query resolves and none fails for lack of a mnemonic.
\* Called without a walletAddress or with an empty one, get_open_orders and
\* get_positions fail with the error that no wallet address was provided,
\* before any query.
C22_ReadOnlyWithoutMnemonic ==
    MNEMONIC = "unset" =>
        /\ \A c \in FailedEarly :
               /\ c \in Called
               /\ Tool(c) \in WalletTools
               /\ call[c][1].walletAddress \in {Null, Some("")}
               /\ result[c][1].isError
               /\ result[c][1].message # MnemonicRequired
        /\ \A c \in Called : Tool(c) \in ReadOnlyTools =>
               /\ (Tool(c) \in MarketTools \/ call[c][1].walletAddress \notin {Null, Some("")})
                      => /\ request[c] # Null
                         /\ client[c] = Some("readonly")
               /\ (Tool(c) \in WalletTools /\ call[c][1].walletAddress \in {Null, Some("")})
                      => c \in FailedEarly
               /\ pc[c] = "done" => IsText(result[c][1])

\* Without a mnemonic get_positions, called with an address, has returned
\* its text.
C22_Witness ==
    /\ MNEMONIC = "unset"
    /\ \E c \in Called :
        /\ Tool(c) = "get_positions"
        /\ call[c][1].walletAddress = Some("SUPPLIED")
        /\ pc[c] = "done"
        /\ request[c][1].method = "getPositions"
        /\ IsText(result[c][1])

\* The calls of get_open_orders and get_positions, and the walletAddress
\* each was called with.
WalletCalls == {c \in Called : Tool(c) \in WalletTools}

WalletArgument(c) == call[c][1].walletAddress

\* C23: resolveWalletAddress returns the argument when one is supplied and
\* not empty, also when a wallet is configured; otherwise the address of
\* the configured mnemonic; and it throws 'No wallet address provided'
\* exactly when no argument is supplied and no address is configured.
C23_ResolveWalletAddress ==
    \A c \in WalletCalls :
        LET w == WalletArgument(c)
            supplied == w \notin {Null, Some("")}
            configured == MNEMONIC = "valid"
            resolved == resolveWalletAddress(w)
        IN  /\ supplied => ~resolved.threw /\ resolved.value = w
            /\ (~supplied /\ configured) =>
                   ~resolved.threw /\ resolved.value = Some("CONFIGURED")
            /\ resolved.threw <=> (~supplied /\ ~configured)
            /\ resolved.threw =>
                   /\ pc[c] = "failed"
                   /\ result[c][1].isError
                   /\ result[c][1].message =
                          "No wallet address provided. Either pass a walletAddress parameter, or set ALPHA_MNEMONIC in your MCP server configuration so the default wallet is used."
            /\ request[c] # Null => request[c][1].address = resolved.value

\* With a wallet configured, get_open_orders has been called with another
\* address and has queried its client with that address.
C23_Witness ==
    /\ MNEMONIC = "valid"
    /\ \E c \in WalletCalls :
        /\ Tool(c) = "get_open_orders"
        /\ WalletArgument(c) = Some("SUPPLIED")
        /\ request[c] # Null
        /\ request[c][1].address = Some("SUPPLIED")
        /\ request[c][1].address # Some(ConfiguredAddress)

\* The wallet calls that had to look up the configured wallet: those
\* called without an address.
ConfiguredLookups == {c \in WalletCalls : WalletArgument(c) \in {Null, Some("")}}

\* C24: getConfiguredWalletAddress never raises: it returns the address of
\* the configured mnemonic, and null when the mnemonic is not set or cannot
\* be decoded, so that a call without an address then ends in 'No wallet
\* address provided', not in the decoder's error.
C24_ConfiguredWalletAddress ==
    /\ ~getConfiguredWalletAddress.threw
    /\ MNEMONIC = "valid" => getConfiguredWalletAddress.value = Some("CONFIGURED")
    /\ MNEMONIC \in {"unset", "invalid"} => getConfiguredWalletAddress.value = Null
    /\ \A c \in ConfiguredLookups :
        /\ MNEMONIC = "valid" => request[c] # Null /\ request[c][1].address = Some("CONFIGURED")
        /\ MNEMONIC \in {"unset", "invalid"} =>
               /\ pc[c] = "failed"
               /\ result[c][1].isError
               /\ result[c][1].message # "mnemonicToSecretKey"
               /\ client[c] = Null

\* With a mnemonic that cannot be decoded, get_positions has been called
\* without an address and has failed for the missing address.
C24_Witness ==
    /\ MNEMONIC = "invalid"
    /\ \E c \in ConfiguredLookups :
        /\ Tool(c) = "get_positions"
        /\ WalletArgument(c) = Null
        /\ pc[c] = "failed"
        /\ result[c][1].message = NoWalletAddress

(***************************************************************************)
(* The spread                                                              *)
(***************************************************************************)

\* The book with the outcome tokens exchanged: the YES sides are the NO
\* sides and the NO sides the YES sides.
Swapped(b) == [yes |-> b.no, no |-> b.yes]

\* The complements of the prices of a unified side, in its order.
ComplementSequence(side) == [i \in DOMAIN side |-> 1000000 - side[i].priceRaw]

\* C25: had the book arrived with the outcome tokens exchanged, the unified
\* asks would be priced at the complements of the returned bids, the
\* unified bids at the complements of the returned asks, and the spread
\* would be the same, unavailable if it is unavailable.
C25_TokenSwap ==
    \A c \in Returned :
        LET swapped == unify(Swapped(RawBook(c)))
        IN  /\ PriceSequence(swapped.unified.asks) = ComplementSequence(UnifiedBids(c))
            /\ PriceSequence(swapped.unified.bids) = ComplementSequence(UnifiedAsks(c))
            /\ swapped.unified.spread = Document(c).unified.spread

\* A returned book with two bids at different prices and an ask, all on
\* different raw sides than after the exchange, and a spread.
C25_Witness ==
    \E c \in Returned :
        /\ Len(UnifiedBids(c)) = 2
        /\ Len(UnifiedAsks(c)) = 1
        /\ UnifiedBids(c)[1].priceRaw > UnifiedBids(c)[2].priceRaw
        /\ Len(RawBook(c).yes.bids) = 1
        /\ Len(RawBook(c).no.asks) = 1
        /\ Swapped(RawBook(c)) # RawBook(c)
        /\ Document(c).unified.spread # "N/A"
        /\ unify(Swapped(RawBook(c))).unified.asks[1].priceRaw
               = 1000000 - UnifiedBids(c)[1].priceRaw

\* The returned calls whose book is crossed: the greatest YES price bid,
\* natively or by a NO ask, is above the least YES price asked, natively
\* or by a NO bid.
Crossed ==
    {c \in TwoSided : Greatest(BidPrices(RawBook(c))) > Least(AskPrices(RawBook(c)))}

\* C26: the spread of a crossed book is not clamped: it is the text of the
\* difference with its minus sign, the magnitude in cents to the nearest
\* hundredth of a cent, and neither "0.00¢" nor "N/A".
C26_CrossedSpread ==
    \A c \in Crossed :
        LET d == Greatest(BidPrices(RawBook(c))) - Least(AskPrices(RawBook(c)))
        IN  /\ Document(c).unified.spread \notin {"N/A", "0.00¢"}
            /\ \E h \in {d \div 100, d \div 100 + 1} :
                 /\ Abs(h * 100 - d) <= 50
                 /\ Document(c).unified.spread = "-" \o CentsText(FALSE, h)

\* A returned book whose YES sides do not cross, a bid at 60 cents under an
\* ask at 100, and that a NO bid at 60 cents crosses with its ask at 40: the
\* spread is minus twenty cents.
C26_Witness ==
    \E c \in Crossed :
        /\ Len(RawBook(c).yes.bids) = 1
        /\ Len(RawBook(c).yes.asks) = 1
        /\ Len(RawBook(c).no.bids) = 1
        /\ RawBook(c).yes.bids[1].price = 600000
        /\ RawBook(c).yes.asks[1].price = 1000000
        /\ RawBook(c).no.bids[1].price = 600000
        /\ Document(c).unified.spread = "-20.00¢"

----------------------------------------------------------------------------
\* The order of address and client in get_open_orders and get_positions.

ReachedClient ==
    {c \in DOMAIN pc :
        /\ pc[c] # "idle"
        /\ c \in Called => \/ Tool(c) \in MarketTools
                           \/ /\ Tool(c) \in WalletTools
                              /\ ~resolveWalletAddress(WalletArgument(c)).threw}

----------------------------------------------------------------------------
\* get_market.

\* The calls of get_market whose query has resolved.
MarketLookups == {c \in Called : Tool(c) = "get_market" /\ response[c] # Null}

\* C29: get_market reports a missing market as a text, 'Market "<id>" not
\* found.' with the id it was called with, not as an error, and returns the
\* serialized market exactly when the client returned one.
C29_MissingMarket ==
    \A c \in MarketLookups :
        LET market == response[c][1]
            text == result[c][1].content[1].text
        IN  /\ pc[c] = "done"
            /\ IsText(result[c][1])
            /\ market = Null =>
                   /\ Len(text) = 1
                   /\ text[1] = "Market \"" \o call[c][1].marketId[1] \o "\" not found."
            /\ (market # Null) <=>
                   /\ Len(text) = 2
                   /\ text[1] = "JSON"
                   /\ text[2] = MarketOf(call[c][1].marketId[1])
            /\ market # Null => text[2] = market[1]

\* get_market was called for market 9999, the client had none, and the
\* call returned the text that says so.
C29_Witness ==
    \E c \in MarketLookups :
        /\ call[c][1].marketId = Some("9999")
        /\ response[c] = Some(Null)
        /\ pc[c] = "done"
        /\ result[c] = Some(textResult(<<"Market \"9999\" not found.">>))

====
